---- MODULE Spec2Model ----
(***************************************************************************)
(* Model of backend/lambda/lambda_function.py: tile partitioning,          *)
(* per-tile fetch with retry, the concurrent fetch orchestrator, mosaic    *)
(* assembly and the area statistics.                                       *)
(*                                                                         *)
(* Python floats are modelled as binary floating-point numbers m * 2^e     *)
(* with a Prec-bit significand and round-to-nearest-even, the arithmetic   *)
(* of IEEE-754 doubles at a reduced precision.  Python ints stay integers. *)
(***************************************************************************)
EXTENDS Integers, Sequences, FiniteSets, Bags, TLC

(***************************************************************************)
(* Bounds of the model.                                                    *)
(***************************************************************************)
\* significand bits of the modelled float format (53 in the program)
Prec == 8

(***************************************************************************)
(* Evaluation helpers: With1(x0, F) is F(x0) with x0 evaluated once.       *)
(***************************************************************************)
With1(x0, F(_)) == CHOOSE r \in {F(x) : x \in {x0}} : TRUE

With2(x0, y0, F(_, _)) == CHOOSE r \in {F(x, y) : x \in {x0}, y \in {y0}} : TRUE

With3(x0, y0, z0, F(_, _, _)) ==
  CHOOSE r \in {F(x, y, z) : x \in {x0}, y \in {y0}, z \in {z0}} : TRUE

With4(w0, x0, y0, z0, F(_, _, _, _)) ==
  CHOOSE r \in {F(w, x, y, z) : w \in {w0}, x \in {x0}, y \in {y0}, z \in {z0}} : TRUE

(***************************************************************************)
(* Floating-point arithmetic.                                              *)
(***************************************************************************)
Pow2(n) == IF n <= 0 THEN 1 ELSE 2 ^ n

Abs(n) == IF n < 0 THEN -n ELSE n

Min2(a, b) == IF a <= b THEN a ELSE b

Max2(a, b) == IF a >= b THEN a ELSE b

\* the float 0.0
Zero == [m |-> 0, e |-> 0]

\* nearest integer to a/b, ties to even (a >= 0, b > 0)
RoundHalfEven(a, b) ==
  With2(a \div b, a % b, LAMBDA q, r :
    IF 2 * r < b THEN q
    ELSE IF 2 * r > b THEN q + 1
    ELSE IF q % 2 = 0 THEN q ELSE q + 1)

\* number of bits of n >= 1
BitLen(n) == CHOOSE j \in 1..30 : Pow2(j - 1) <= n /\ n < Pow2(j)

\* floor(log2(a/b)) for a > 0 and b > 0
Log2Floor(a, b) ==
  With2(BitLen(a), BitLen(b), LAMBDA la, lb :
    IF la >= lb
    THEN (IF a >= b * Pow2(la - lb) THEN la - lb ELSE la - lb - 1)
    ELSE (IF a * Pow2(lb - la) >= b THEN la - lb ELSE la - lb - 1))

\* the float nearest to (a/b) * 2^e, for a > 0 and b > 0
FlPos(a, b, e) ==
  With1(Log2Floor(a, b) - (Prec - 1), LAMBDA k :
    With1(IF k >= 0 THEN RoundHalfEven(a, b * Pow2(k))
                    ELSE RoundHalfEven(a * Pow2(-k), b), LAMBDA m :
      IF m = Pow2(Prec) THEN [m |-> Pow2(Prec - 1), e |-> e + k + 1]
      ELSE [m |-> m, e |-> e + k]))

\* the float nearest to (a/b) * 2^e, for any integer a and b > 0
Fl(a0, b0, e0) ==
  With3(a0, b0, e0, LAMBDA a, b, e :
    IF a = 0 THEN Zero
    ELSE IF a > 0 THEN FlPos(a, b, e)
    ELSE With1(FlPos(-a, b, e), LAMBDA p : [m |-> -(p.m), e |-> p.e]))

\* float(n) for a Python int n
FromInt(n) == Fl(n, 1, 0)

\* the float nearest to the decimal literal n/d
FromRat(n, d) == Fl(n, d, 0)

\* x + y
FAdd(x0, y0) ==
  With2(x0, y0, LAMBDA x, y :
    IF x.m = 0 THEN y
    ELSE IF y.m = 0 THEN x
    ELSE With1(Min2(x.e, y.e), LAMBDA e :
           Fl(x.m * Pow2(x.e - e) + y.m * Pow2(y.e - e), 1, e)))

FNeg(x0) == With1(x0, LAMBDA x : [m |-> -(x.m), e |-> x.e])

\* x - y
FSub(x, y) == FAdd(x, FNeg(y))

\* x * y
FMul(x0, y0) == With2(x0, y0, LAMBDA x, y : Fl(x.m * y.m, 1, x.e + y.e))

\* n * x, int times float (the int converts exactly)
FMulInt(n, x0) == With1(x0, LAMBDA x : Fl(n * x.m, 1, x.e))

\* x / y for y # 0
FDiv(x0, y0) ==
  With2(x0, y0, LAMBDA x, y :
    IF y.m > 0 THEN Fl(x.m, y.m, x.e - y.e) ELSE Fl(-(x.m), -(y.m), x.e - y.e))

\* x / n, float by a nonzero int
FDivInt(x0, n0) ==
  With2(x0, n0, LAMBDA x, n :
    IF n > 0 THEN Fl(x.m, n, x.e) ELSE Fl(-(x.m), -n, x.e))

\* n / x, int by a nonzero float
IntDivF(n0, x0) ==
  With2(n0, x0, LAMBDA n, x :
    IF x.m > 0 THEN Fl(n, x.m, -(x.e)) ELSE Fl(-n, -(x.m), -(x.e)))

\* a / b, Python true division of two ints, b # 0
IntDiv(a, b) == IF b > 0 THEN Fl(a, b, 0) ELSE Fl(-a, -b, 0)

\* sign of x - y, computed exactly
FCmp(x0, y0) ==
  With2(x0, y0, LAMBDA x, y :
    With1(IF x.m = 0 THEN -(y.m)
          ELSE IF y.m = 0 THEN x.m
          ELSE x.m * Pow2(x.e - Min2(x.e, y.e)) - y.m * Pow2(y.e - Min2(x.e, y.e)),
          LAMBDA d : IF d < 0 THEN -1 ELSE IF d > 0 THEN 1 ELSE 0))

FLe(x, y) == FCmp(x, y) <= 0

FLt(x, y) == FCmp(x, y) < 0

\* x > n for a float x and an int n >= 0
FGtInt(x0, n) ==
  With1(x0, LAMBDA x :
    IF x.m <= 0 THEN FALSE
    ELSE IF x.e >= 0 THEN x.m > n \div Pow2(x.e)
    ELSE IF n >= Pow2(Prec) THEN FALSE
    ELSE x.m > n * Pow2(-(x.e)))

\* int(x): truncation toward zero
FInt(x0) ==
  With1(x0, LAMBDA x :
    IF x.e >= 0 THEN x.m * Pow2(x.e)
    ELSE IF x.m >= 0 THEN x.m \div Pow2(-(x.e))
    ELSE -((-(x.m)) \div Pow2(-(x.e))))

\* math.ceil(x) for x >= 0
FCeil(x0) ==
  With1(x0, LAMBDA x :
    IF x.e >= 0 THEN x.m * Pow2(x.e)
    ELSE (x.m + Pow2(-(x.e)) - 1) \div Pow2(-(x.e)))

(***************************************************************************)
(* math.radians and math.cos.                                              *)
(***************************************************************************)
\* math.radians(x): x * pi/180, with pi/180 taken as 71/4068
MathRadians(x0) == With1(x0, LAMBDA x : Fl(x.m * 71, 4068, x.e))

\* |r| in fixed point, units of 2^-12
Fixed12(r0) ==
  With1(r0, LAMBDA r :
    IF r.e >= -12 THEN Abs(r.m) * Pow2(r.e + 12) ELSE Abs(r.m) \div Pow2(-12 - r.e))

\* math.cos(r) for |r| <= pi/2: the Taylor polynomial of degree 6 evaluated
\* in fixed point (units of 2^-12), then rounded to a float
MathCos(r) ==
  With1(Fixed12(r), LAMBDA R :
    With1((R * R) \div 4096, LAMBDA r2 :
      With1((r2 * r2) \div 4096, LAMBDA r4 :
        Fl(4096 - (r2 \div 2) + (r4 \div 24) - (((r4 * r2) \div 4096) \div 720),
           4096, 0))))

(***************************************************************************)
(* Geometry: shapely boxes and the boundary polygon.  A boundary is a      *)
(* sequence of axis-aligned rectangular parts (a Polygon has one part, a   *)
(* MultiPolygon several); the empty sequence is an empty geometry.         *)
(***************************************************************************)
FMin(x0, y0) == With2(x0, y0, LAMBDA x, y : IF FLe(x, y) THEN x ELSE y)

FMax(x0, y0) == With2(x0, y0, LAMBDA x, y : IF FLe(x, y) THEN y ELSE x)

\* shapely.geometry.box(minx, miny, maxx, maxy), held as its .bounds
box(a0, b0, c0, d0) ==
  With4(a0, b0, c0, d0, LAMBDA x1, y1, x2, y2 :
    [minx |-> FMin(x1, x2), miny |-> FMin(y1, y2),
     maxx |-> FMax(x1, x2), maxy |-> FMax(y1, y2)])

\* two closed rectangles share a point
RectIntersects(a, b) ==
  /\ FLe(a.minx, b.maxx) /\ FLe(b.minx, a.maxx)
  /\ FLe(a.miny, b.maxy) /\ FLe(b.miny, a.maxy)

\* sub_rect.intersects(total_shapely_polygon)
intersects(rect, poly) ==
  \E k \in 1..Len(poly) : RectIntersects(rect, poly[k])

(***************************************************************************)
(* split_boundary_box                                                      *)
(***************************************************************************)
\* grid cells that reach one step further east and north, so that
\* neighbours overlap
sub_rect_of_Overlapping(bb, i, j, step_x, step_y) ==
  box(FAdd(bb.minx, FMulInt(i, step_x)),
      FAdd(bb.miny, FMulInt(j, step_y)),
      FAdd(bb.minx, FMulInt(i + 2, step_x)),
      FAdd(bb.miny, FMulInt(j + 2, step_y)))

\* the grid cell (i, j) built in the double loop
sub_rect_of(bb, i, j, step_x, step_y) ==
  box(FAdd(bb.minx, FMulInt(i, step_x)),
      FAdd(bb.miny, FMulInt(j, step_y)),
      FAdd(bb.minx, FMulInt(i + 1, step_x)),
      FAdd(bb.miny, FMulInt(j + 1, step_y)))

\* the grid cells in loop order (i outer, j inner), before the filter
GridCells(bb, num_x, num_y) ==
  With2(FDivInt(FSub(bb.maxx, bb.minx), num_x),
        FDivInt(FSub(bb.maxy, bb.miny), num_y), LAMBDA step_x, step_y :
    [k \in 1..(num_x * num_y) |->
       sub_rect_of(bb, (k - 1) \div num_y, (k - 1) % num_y, step_x, step_y)])

width_km_of(bb) ==
  With1(FDivInt(FAdd(bb.miny, bb.maxy), 2), LAMBDA lat_mid :
    With1(FMulInt(111, MathCos(MathRadians(lat_mid))), LAMBDA km_per_deg_lon :
      FMul(FSub(bb.maxx, bb.minx), km_per_deg_lon)))

height_km_of(bb) == FMulInt(111, FSub(bb.maxy, bb.miny))

\* an early-return test that compares the area with the tile size
FitsOneTile_Area(width_km, height_km, max_size_km) ==
  ~FGtInt(FMul(width_km, height_km), max_size_km)

\* the early-return test of split_boundary_box
FitsOneTile(width_km, height_km, max_size_km) ==
  /\ ~FGtInt(width_km, max_size_km)
  /\ ~FGtInt(height_km, max_size_km)

\* the adaptive max tile size
AdaptedMaxSize(width_km, height_km, max_size_km) ==
  IF FGtInt(FMul(width_km, height_km), 1000)
  THEN Min2(60, Max2(30, max_size_km))
  ELSE max_size_km

\* num_x and num_y
GridCount(extent_km, max_size_km) == FCeil(FDivInt(extent_km, max_size_km))

\* the filter of the inner loop: keep the cell iff it intersects the polygon
KeepCell(cell, poly) == intersects(cell, poly)

\* the double loop over the grid
SplitGrid(bb, poly, num_x, num_y) ==
  IF num_x = 0 \/ num_y = 0
  THEN [raised |-> TRUE, tiles |-> <<>>]
  ELSE [raised |-> FALSE,
        tiles  |-> SelectSeq(GridCells(bb, num_x, num_y),
                             LAMBDA c : KeepCell(c, poly))]

\* split_boundary_box(boundary_box, max_size_km) with the global polygon;
\* raised = ZeroDivisionError from a zero grid count
split_boundary_box(bb0, poly0, max0) ==
  With3(bb0, poly0, max0, LAMBDA bb, poly, max_size_km :
    With2(width_km_of(bb), height_km_of(bb), LAMBDA width_km, height_km :
      IF FitsOneTile(width_km, height_km, max_size_km)
      THEN [raised |-> FALSE, tiles |-> <<bb>>]
      ELSE With1(AdaptedMaxSize(width_km, height_km, max_size_km), LAMBDA adapted :
             With2(GridCount(width_km, adapted), GridCount(height_km, adapted),
                   LAMBDA num_x, num_y : SplitGrid(bb, poly, num_x, num_y)))))

(***************************************************************************)
(* State.                                                                  *)
(***************************************************************************)
VARIABLES
  boundary_box,            \* global boundary_box (load_boundary)
  total_shapely_polygon,   \* global total_shapely_polygon (load_boundary)
  max_size,                \* the max_size_km argument of split_boundary_box
  split_pc,                \* "ready", "returned" or "raised"
  sub_rectangles,          \* the list split_boundary_box returned
  orch_pc,                 \* position of process_and_export_image
  max_workers,             \* size of the ThreadPoolExecutor
  queue,                   \* submitted work items no worker has taken yet
  fut,                     \* state of each tile's future
  w_pc,                    \* position of each tile's process_sub_polygon call
  attempts,                \* download attempts made for each tile
  sleeps,                  \* time.sleep(2) calls made for each tile
  last_error,              \* how each tile's latest attempt failed
  yielded,                 \* futures as_completed has yielded
  results,                 \* the results list of process_and_export_image
  image_file,              \* what process_and_export_image returned
  status_code,             \* statusCode of the lambda_handler response
  canvas,                  \* size of merged_img, <<>> before it is created
  merged_img,              \* the pastes made onto merged_img, in order
  boundary_mask,           \* the filled pixel rectangles of the mask
  histogram,               \* frequency histogram: class value -> pixel count
  total_area,              \* the total_area argument, in 1e-6 km2
  stats_pc,                \* "idle", "ready", "returned" or "raised"
  total_pixels,            \* total_pixels of calculate_area_statistics
  class_areas,             \* class_areas: class index -> area in 1e-5 km2
  stats_data               \* the stats_data dict, decimals in units of 1e-5

partVars == <<boundary_box, total_shapely_polygon, max_size, split_pc,
              sub_rectangles>>

fetchVars == <<orch_pc, max_workers, queue, fut, w_pc, attempts, sleeps,
               last_error, yielded, results, image_file, status_code>>

imgVars == <<canvas, merged_img, boundary_mask>>

workerVars == <<fut, w_pc, attempts, sleeps, last_error>>

statVars == <<histogram, total_area, stats_pc, total_pixels, class_areas,
              stats_data>>

vars == <<boundary_box, total_shapely_polygon, max_size, split_pc,
          sub_rectangles, orch_pc, max_workers, queue, fut, w_pc, attempts,
          sleeps, last_error, yielded, results, image_file, status_code,
          canvas, merged_img, boundary_mask, histogram, total_area,
          stats_pc, total_pixels, class_areas, stats_data>>

\* the orchestrator and the handler before they are entered
FetchIdle ==
  /\ orch_pc = "idle" /\ max_workers = 0 /\ queue = <<>>
  /\ fut = <<>> /\ w_pc = <<>> /\ attempts = <<>> /\ sleeps = <<>>
  /\ last_error = <<>> /\ yielded = {} /\ results = <<>>
  /\ image_file = "unset" /\ status_code = 0

\* no image has been assembled
ImgIdle == canvas = <<>> /\ merged_img = <<>> /\ boundary_mask = <<>>

\* calculate_area_statistics has not been called
StatsIdle ==
  /\ histogram = <<>> /\ total_area = 0 /\ stats_pc = "idle"
  /\ total_pixels = 0 /\ class_areas = <<>> /\ stats_data = <<>>

(***************************************************************************)
(* Job inputs: bounding boxes with corners in tenths of a degree, and      *)
(* boundaries placed relative to the box.                                  *)
(***************************************************************************)
Tenth(n) == FromRat(n, 10)

BoxOf(w, s, dx, dy) == box(Tenth(w), Tenth(s), Tenth(w + dx), Tenth(s + dy))

\* the boundary equal to its bounding box
PolyFull(bb) == <<bb>>

\* a boundary strictly inside the box, in its south-west quarter
PolySouthWest(bb0) ==
  With1(bb0, LAMBDA bb :
    <<box(bb.minx, bb.miny,
          FAdd(bb.minx, FDivInt(FSub(bb.maxx, bb.minx), 4)),
          FAdd(bb.miny, FDivInt(FSub(bb.maxy, bb.miny), 4)))>>)

\* a boundary lying wholly east of a box supplied from an independent source
PolyOutside(bb0) ==
  With1(bb0, LAMBDA bb :
    <<box(FAdd(bb.maxx, FromInt(1)), bb.miny, FAdd(bb.maxx, FromInt(2)), bb.maxy)>>)

\* a two-part boundary: the south-west quarter and the north-east corner
PolyTwoParts(bb0) ==
  With1(bb0, LAMBDA bb :
    PolySouthWest(bb) \o
    <<box(FSub(bb.maxx, FDivInt(FSub(bb.maxx, bb.minx), 8)),
          FSub(bb.maxy, FDivInt(FSub(bb.maxy, bb.miny), 8)),
          bb.maxx, bb.maxy)>>)

PolysOf(bb0) ==
  With1(bb0, LAMBDA bb :
    {PolyFull(bb), PolySouthWest(bb), PolyOutside(bb), PolyTwoParts(bb)})

\* west and south corners, widths and heights, in tenths of a degree
Wests == {0, 3, 21}

Souths == {0, -14, 600}

Widths == {2, 5, 9, 18}

Heights == {2, 5, 10}

MaxSizes == {30, 45, 100}

PartitionBoxes == {BoxOf(w, s, dx, dy) : w \in Wests, s \in Souths, dx \in Widths, dy \in Heights}

(***************************************************************************)
(* Partitioner as a state machine.                                         *)
(***************************************************************************)
InitPartition ==
  /\ boundary_box \in PartitionBoxes
  /\ total_shapely_polygon \in PolysOf(boundary_box)
  /\ max_size \in MaxSizes
  /\ split_pc = "ready"
  /\ sub_rectangles = <<>>
  /\ FetchIdle
  /\ ImgIdle
  /\ StatsIdle

\* one call of split_boundary_box(boundary_box, max_size)
SplitBoundaryBox ==
  /\ split_pc = "ready"
  /\ \E r \in {split_boundary_box(boundary_box, total_shapely_polygon, max_size)} :
       /\ split_pc' = IF r.raised THEN "raised" ELSE "returned"
       /\ sub_rectangles' = r.tiles
  /\ UNCHANGED <<boundary_box, total_shapely_polygon, max_size>>
  /\ UNCHANGED fetchVars
  /\ UNCHANGED imgVars
  /\ UNCHANGED statVars

NextPartition == SplitBoundaryBox

SpecPartition == InitPartition /\ [][NextPartition]_vars

(***************************************************************************)
(* Claims about the partitioner.                                           *)
(***************************************************************************)
\* the box is larger than the max tile size in at least one dimension
LargerThanMaxTile ==
  \/ FGtInt(width_km_of(boundary_box), max_size)
  \/ FGtInt(height_km_of(boundary_box), max_size)

\* the point (x, y) lies in the closed rectangle r
PointIn(x, y, r) ==
  /\ FLe(r.minx, x) /\ FLe(x, r.maxx) /\ FLe(r.miny, y) /\ FLe(y, r.maxy)

\* the corners of the part p clipped to the bounding box (empty if disjoint)
ClippedCorners(p, bb) ==
  IF ~RectIntersects(p, bb) THEN {}
  ELSE {<<x, y>> : x \in {FMax(p.minx, bb.minx), FMin(p.maxx, bb.maxx)},
                   y \in {FMax(p.miny, bb.miny), FMin(p.maxy, bb.maxy)}}

\* C7: for a bounding box larger than the max tile size, no point of the
\* polygon inside the bounding box lies outside the union of the returned
\* tiles (stated on the corner points of each polygon part clipped to the box)
C7_PartitionCoverage ==
  (split_pc = "returned" /\ LargerThanMaxTile) =>
    \A k \in 1..Len(total_shapely_polygon) :
      \A pt \in ClippedCorners(total_shapely_polygon[k], boundary_box) :
        \E t \in 1..Len(sub_rectangles) : PointIn(pt[1], pt[2], sub_rectangles[t])

\* C8: every returned tile lies fully inside the original bounding box:
\* west <= tile west < tile east <= east, south <= tile south < tile north <= north
C8_TilesInsideBox ==
  split_pc = "returned" =>
    \A t \in 1..Len(sub_rectangles) :
      LET r == sub_rectangles[t]
      IN  /\ FLe(boundary_box.minx, r.minx) /\ FLt(r.minx, r.maxx)
          /\ FLe(r.maxx, boundary_box.maxx)
          /\ FLe(boundary_box.miny, r.miny) /\ FLt(r.miny, r.maxy)
          /\ FLe(r.maxy, boundary_box.maxy)

\* C9: when width and height in km are both at most the max tile size, the
\* partitioner returns exactly one tile, the input bounding box unchanged
C9_SmallBoxUnchanged ==
  (split_pc = "returned" /\ ~LargerThanMaxTile) =>
    sub_rectangles = <<boundary_box>>

C9_Witness ==
  /\ split_pc = "returned" /\ ~LargerThanMaxTile
  /\ Len(sub_rectangles) = 1

(***************************************************************************)
(* merge_images_properly and create_boundary_mask.  An image is held as    *)
(* its size and the rectangles written to it, in the order written.        *)
(***************************************************************************)
max_dimension == 5000

width_m_of(bb) ==
  With1(FDivInt(FAdd(bb.miny, bb.maxy), 2), LAMBDA lat_mid :
    With1(FMulInt(111000, MathCos(MathRadians(lat_mid))), LAMBDA meters_per_deg_lon :
      FMul(FSub(bb.maxx, bb.minx), meters_per_deg_lon)))

height_m_of(bb) == FMulInt(111000, FSub(bb.maxy, bb.miny))

\* scale_factor of line 394: metres per pixel
BaseScale(width_m, height_m) ==
  IF FGtInt(FMul(width_m, height_m), 1000000000) THEN 20 ELSE 10

\* the scale_factor of line 399
CapFactor(w, h) ==
  FMax(IntDiv(w, max_dimension), IntDiv(h, max_dimension))

\* height_pixels of line 400: the height in metres over the cap factor
CappedHeight(height_m, height_pixels, factor) == FInt(FDiv(height_m, factor))

\* lines 397-400: the cap on the canvas size
Capped(width_pixels, height_pixels, height_m) ==
  IF width_pixels > max_dimension \/ height_pixels > max_dimension
  THEN With1(CapFactor(width_pixels, height_pixels), LAMBDA factor :
         [w |-> FInt(IntDivF(width_pixels, factor)),
          h |-> CappedHeight(height_m, height_pixels, factor)])
  ELSE [w |-> width_pixels, h |-> height_pixels]

\* the canvas size of lines 390-400
CanvasSize(bb) ==
  With2(width_m_of(bb), height_m_of(bb), LAMBDA width_m, height_m :
    With1(BaseScale(width_m, height_m), LAMBDA scale_factor :
      Capped(FInt(FDivInt(width_m, scale_factor)),
             FInt(FDivInt(height_m, scale_factor)), height_m)))

\* the clamp of geo_to_pixel
Clamp(v, size) == Max2(0, Min2(v, size - 1))

\* geo_to_pixel(lon, lat) of merge_images_properly and create_boundary_mask
geo_to_pixel(bb, cv, lon, lat) ==
  With2(FInt(FMulInt(cv.w, FDiv(FSub(lon, bb.minx), FSub(bb.maxx, bb.minx)))),
        FInt(FMulInt(cv.h, FDiv(FSub(bb.maxy, lat), FSub(bb.maxy, bb.miny)))),
        LAMBDA x, y : [x |-> Clamp(x, cv.w), y |-> Clamp(y, cv.h)])

\* the pixel footprint of a tile: x1, y1 inclusive, x2, y2 exclusive
Footprint(bb, cv, rect) ==
  With2(geo_to_pixel(bb, cv, rect.minx, rect.maxy),
        geo_to_pixel(bb, cv, rect.maxx, rect.miny),
        LAMBDA p1, p2 : [x1 |-> p1.x, y1 |-> p1.y, x2 |-> p2.x, y2 |-> p2.y])

\* the footprint is pasted only with positive width and height
Usable(fp) == fp.x2 - fp.x1 > 0 /\ fp.y2 - fp.y1 > 0

\* the paste loop: one paste per usable result, in the order of the list
PasteAll(res, bb, cv) ==
  SelectSeq([k \in 1..Len(res) |->
               [img |-> res[k].png_image,
                at  |-> Footprint(bb, cv, res[k].shapely_sub_rect)]],
            LAMBDA p : Usable(p.at))

\* a mask that is opaque over the whole canvas
create_boundary_mask_Opaque(poly, bb, cv) ==
  <<[x1 |-> 0, y1 |-> 0, x2 |-> cv.w - 1, y2 |-> cv.h - 1]>>

\* create_boundary_mask: each part's exterior ring, a rectangle, is filled
\* between its pixel corners, edges included
create_boundary_mask(poly, bb, cv) ==
  [k \in 1..Len(poly) |-> Footprint(bb, cv, poly[k])]

\* merge_images_properly(results, ...) with the global box and polygon
merge_images_properly(res0, bb0, poly0) ==
  With3(res0, bb0, poly0, LAMBDA res, bb, poly :
    IF res = <<>>
    THEN [file |-> "None", canvas |-> <<>>, pastes |-> <<>>, mask |-> <<>>]
    ELSE With1(CanvasSize(bb), LAMBDA cv :
           [file   |-> "file",
            canvas |-> cv,
            pastes |-> PasteAll(res, bb, cv),
            mask   |-> create_boundary_mask(poly, bb, cv)]))

\* the pastes that cover pixel (x, y)
Covering(pastes, x, y) ==
  {k \in 1..Len(pastes) :
     /\ pastes[k].at.x1 <= x /\ x < pastes[k].at.x2
     /\ pastes[k].at.y1 <= y /\ y < pastes[k].at.y2}

\* the tile image shown at pixel (x, y) of the merged image, 0 where nothing
\* was pasted: the last paste that covers the pixel
PixelOf(pastes, x, y) ==
  With1(Covering(pastes, x, y), LAMBDA hits :
    IF hits = {} THEN 0
    ELSE pastes[CHOOSE k \in hits : \A j \in hits : j <= k].img)

\* pixel (x, y) of the mask is opaque
MaskAt(mask, x, y) ==
  \E k \in 1..Len(mask) :
    /\ mask[k].x1 <= x /\ x <= mask[k].x2
    /\ mask[k].y1 <= y /\ y <= mask[k].y2

\* pixel (x, y) of masked_img: the merged image inside the mask, black outside
MaskedPixelOf(pastes, mask, x, y) ==
  IF MaskAt(mask, x, y) THEN PixelOf(pastes, x, y) ELSE 0

(***************************************************************************)
(* export_sub_polygon_as_png and process_sub_polygon: one worker per tile. *)
(* Tiles are numbered 1..N here; the program's index is one less.          *)
(***************************************************************************)
max_retries == 3

BackoffSeconds == 2

NumTiles == Len(sub_rectangles)

Tiles == 1..NumTiles

\* the futures list of process_and_export_image
Futures == DOMAIN fut

Running == {i \in Futures : fut[i] = "running"}

Finished == {i \in Futures : fut[i] \in {"result", "none", "raised"}}

\* a loop that runs one iteration too many
LoopContinues_OffByOne(made) == made <= max_retries

\* the for loop of export_sub_polygon_as_png goes on to another attempt
\* after `made` attempts
LoopContinues(made) == made < max_retries

\* a pool that starts a thread for every work item
WorkerAvailable_Always == TRUE

\* the executor has an idle thread or may still start one
WorkerAvailable == Cardinality(Running) < max_workers

\* a worker thread takes the oldest queued work item
StartTask(i) ==
  /\ orch_pc \in {"submit", "collect"}
  /\ queue # <<>> /\ Head(queue) = i
  /\ WorkerAvailable
  /\ queue' = Tail(queue)
  /\ fut' = [fut EXCEPT ![i] = "running"]
  /\ w_pc' = [w_pc EXCEPT ![i] = "setup"]
  /\ UNCHANGED <<attempts, sleeps, last_error>>
  /\ UNCHANGED <<orch_pc, max_workers, yielded, results, image_file, status_code>>
  /\ UNCHANGED partVars
  /\ UNCHANGED statVars
  /\ UNCHANGED imgVars

\* process_sub_polygon up to the retry loop: shapely_to_ee, clip and the
\* colour bands are built
SetupDone(i) ==
  /\ i \in Futures /\ w_pc[i] = "setup"
  /\ w_pc' = [w_pc EXCEPT ![i] = "attempt"]
  /\ UNCHANGED <<fut, attempts, sleeps, last_error>>
  /\ UNCHANGED <<orch_pc, max_workers, queue, yielded, results, image_file, status_code>>
  /\ UNCHANGED partVars
  /\ UNCHANGED statVars
  /\ UNCHANGED imgVars

\* the worker raises outside the try block; the future holds the exception
SetupRaises(i) ==
  /\ i \in Futures /\ w_pc[i] = "setup"
  /\ w_pc' = [w_pc EXCEPT ![i] = "done"]
  /\ fut' = [fut EXCEPT ![i] = "raised"]
  /\ UNCHANGED <<attempts, sleeps, last_error>>
  /\ UNCHANGED <<orch_pc, max_workers, queue, yielded, results, image_file, status_code>>
  /\ UNCHANGED partVars
  /\ UNCHANGED statVars
  /\ UNCHANGED imgVars

\* an attempt answers 200: the image is returned and the future holds the
\* result dict
AttemptSucceeds(i) ==
  /\ i \in Futures /\ w_pc[i] = "attempt"
  /\ attempts' = [attempts EXCEPT ![i] = @ + 1]
  /\ w_pc' = [w_pc EXCEPT ![i] = "done"]
  /\ fut' = [fut EXCEPT ![i] = "result"]
  /\ UNCHANGED <<sleeps, last_error>>
  /\ UNCHANGED <<orch_pc, max_workers, queue, yielded, results, image_file, status_code>>
  /\ UNCHANGED partVars
  /\ UNCHANGED statVars
  /\ UNCHANGED imgVars

\* an attempt fails, by a non-200 response or by an exception
AttemptFails(i, how) ==
  /\ i \in Futures /\ w_pc[i] = "attempt"
  /\ attempts' = [attempts EXCEPT ![i] = @ + 1]
  /\ last_error' = [last_error EXCEPT ![i] = how]
  /\ w_pc' = [w_pc EXCEPT ![i] = "sleep"]
  /\ UNCHANGED <<fut, sleeps>>
  /\ UNCHANGED <<orch_pc, max_workers, queue, yielded, results, image_file, status_code>>
  /\ UNCHANGED partVars
  /\ UNCHANGED statVars
  /\ UNCHANGED imgVars

AttemptNon200(i) == AttemptFails(i, "non200")

AttemptException(i) == AttemptFails(i, "exception")

\* time.sleep(2) after a failed attempt, then the next iteration or, when the
\* loop is exhausted, return None
Backoff(i) ==
  /\ i \in Futures /\ w_pc[i] = "sleep"
  /\ sleeps' = [sleeps EXCEPT ![i] = @ + 1]
  /\ IF LoopContinues(attempts[i])
     THEN /\ w_pc' = [w_pc EXCEPT ![i] = "attempt"]
          /\ UNCHANGED fut
     ELSE /\ w_pc' = [w_pc EXCEPT ![i] = "done"]
          /\ fut' = [fut EXCEPT ![i] = "none"]
  /\ UNCHANGED <<attempts, last_error>>
  /\ UNCHANGED <<orch_pc, max_workers, queue, yielded, results, image_file, status_code>>
  /\ UNCHANGED partVars
  /\ UNCHANGED statVars
  /\ UNCHANGED imgVars

(***************************************************************************)
(* process_and_export_image and lambda_handler.                            *)
(***************************************************************************)
PoolLimit == 10

\* the result dict of process_sub_polygon for the i-th tile, rect
TileResult(i, rect) ==
  [index |-> i - 1, png_image |-> i, shapely_sub_rect |-> rect]

\* the result dict of process_sub_polygon for tile i
ResultOf(i) == TileResult(i, sub_rectangles[i])

\* a loop body that appends whatever the future holds
Collected_NoTruthTest(res, i, state) == Append(res, ResultOf(i))

\* the body of the as_completed loop for one future: a truthy result is
\* appended, None and a raised exception are not
Collected(res, i, state) ==
  IF state = "result" THEN Append(res, ResultOf(i)) ELSE res

\* process_natural_forest_classification returns None before any tile work:
\* no imagery, or too much cloud
InsufficientData ==
  /\ orch_pc = "start" /\ split_pc = "ready"
  /\ orch_pc' = "nodata"
  /\ UNCHANGED <<max_workers, queue, yielded, results, image_file, status_code>>
  /\ UNCHANGED workerVars
  /\ UNCHANGED partVars
  /\ UNCHANGED statVars
  /\ UNCHANGED imgVars

\* ThreadPoolExecutor(max_workers=min(10, len(sub_rectangles))): a size of 0
\* raises ValueError
CreatePool ==
  /\ orch_pc = "start" /\ split_pc = "returned"
  /\ LET n == Min2(PoolLimit, NumTiles)
     IN  IF n <= 0
         THEN /\ orch_pc' = "raised"
              /\ UNCHANGED <<max_workers, fut, w_pc, attempts, sleeps, last_error>>
         ELSE /\ orch_pc' = "submit"
              /\ max_workers' = n
              /\ fut' = [i \in Tiles |-> "new"]
              /\ w_pc' = [i \in Tiles |-> "idle"]
              /\ attempts' = [i \in Tiles |-> 0]
              /\ sleeps' = [i \in Tiles |-> 0]
              /\ last_error' = [i \in Tiles |-> "none"]
  /\ UNCHANGED <<queue, yielded, results, image_file, status_code>>
  /\ UNCHANGED partVars
  /\ UNCHANGED statVars
  /\ UNCHANGED imgVars

\* executor.submit for the next tile, in list order
Submit ==
  /\ orch_pc = "submit"
  /\ \E i \in Futures :
       /\ fut[i] = "new"
       /\ \A j \in Futures : j < i => fut[j] # "new"
       /\ fut' = [fut EXCEPT ![i] = "pending"]
       /\ queue' = Append(queue, i)
       /\ orch_pc' = IF i = NumTiles THEN "collect" ELSE "submit"
  /\ UNCHANGED <<w_pc, attempts, sleeps, last_error>>
  /\ UNCHANGED <<max_workers, yielded, results, image_file, status_code>>
  /\ UNCHANGED partVars
  /\ UNCHANGED statVars
  /\ UNCHANGED imgVars

\* as_completed yields a finished future and the loop body handles it
Collect(i) ==
  /\ orch_pc = "collect"
  /\ i \in Finished /\ i \notin yielded
  /\ yielded' = yielded \cup {i}
  /\ results' = Collected(results, i, fut[i])
  /\ UNCHANGED <<orch_pc, max_workers, queue, image_file, status_code>>
  /\ UNCHANGED workerVars
  /\ UNCHANGED partVars
  /\ UNCHANGED statVars
  /\ UNCHANGED imgVars

\* the with block ends and line 444 returns
Return ==
  /\ orch_pc = "collect"
  /\ yielded = Futures
  /\ orch_pc' = "done"
  /\ IF results # <<>>
     THEN \E r \in {merge_images_properly(results, boundary_box, total_shapely_polygon)} :
            /\ image_file' = r.file
            /\ canvas' = r.canvas
            /\ merged_img' = r.pastes
            /\ boundary_mask' = r.mask
     ELSE /\ image_file' = "None"
          /\ UNCHANGED imgVars
  /\ UNCHANGED <<max_workers, queue, yielded, results, status_code>>
  /\ UNCHANGED workerVars
  /\ UNCHANGED partVars
  /\ UNCHANGED statVars

\* lambda_handler after process_natural_forest_classification: a None result
\* is answered 400; otherwise the files are uploaded, and any exception of the
\* job or of the upload is answered 500
Respond ==
  /\ status_code = 0
  /\ orch_pc \in {"nodata", "raised", "done"}
  /\ status_code' =
       IF orch_pc = "nodata" THEN 400
       ELSE IF orch_pc = "raised" THEN 500
       ELSE IF image_file = "None" THEN 500
       ELSE 200
  /\ UNCHANGED <<orch_pc, max_workers, queue, yielded, results, image_file>>
  /\ UNCHANGED workerVars
  /\ UNCHANGED partVars
  /\ UNCHANGED statVars
  /\ UNCHANGED imgVars

(***************************************************************************)
(* The analysis job.                                                       *)
(***************************************************************************)
\* the boundaries of the jobs: one tile, two and three tiles in a row, a
\* sparse boundary on a 2 x 2 grid, and a boundary outside the supplied box
JobInputs ==
  { <<BoxOf(0, 0, 2, 2), PolyFull(BoxOf(0, 0, 2, 2))>>,
    <<BoxOf(3, 0, 5, 2), PolyFull(BoxOf(3, 0, 5, 2))>>,
    <<BoxOf(0, 0, 8, 2), PolyFull(BoxOf(0, 0, 8, 2))>>,
    <<BoxOf(3, -14, 5, 5), PolyTwoParts(BoxOf(3, -14, 5, 5))>>,
    <<BoxOf(0, 0, 5, 2), PolyOutside(BoxOf(0, 0, 5, 2))>> }

Init ==
  /\ \E job \in JobInputs :
       /\ boundary_box = job[1]
       /\ total_shapely_polygon = job[2]
  /\ max_size = 30
  /\ split_pc = "ready"
  /\ sub_rectangles = <<>>
  /\ orch_pc = "start" /\ max_workers = 0 /\ queue = <<>>
  /\ fut = <<>> /\ w_pc = <<>> /\ attempts = <<>> /\ sleeps = <<>>
  /\ last_error = <<>> /\ yielded = {} /\ results = <<>>
  /\ image_file = "unset" /\ status_code = 0
  /\ ImgIdle
  /\ StatsIdle

Next ==
  \/ SplitBoundaryBox
  \/ InsufficientData
  \/ CreatePool
  \/ Submit
  \/ \E i \in Futures : StartTask(i)
  \/ \E i \in Futures : SetupDone(i)
  \/ \E i \in Futures : SetupRaises(i)
  \/ \E i \in Futures : AttemptSucceeds(i)
  \/ \E i \in Futures : AttemptNon200(i)
  \/ \E i \in Futures : AttemptException(i)
  \/ \E i \in Futures : Backoff(i)
  \/ \E i \in Futures : Collect(i)
  \/ Return
  \/ Respond

Spec == Init /\ [][Next]_vars

(***************************************************************************)
(* The analysis job with a boundary of more tiles than the pool has        *)
(* threads.  In jobs of more than MaxFetchingTiles tiles every worker      *)
(* raises before its first download attempt (Earth Engine is unreachable). *)
(***************************************************************************)
MaxFetchingTiles == 3

\* a boundary of 11 tiles in a row
LargeJob == <<BoxOf(0, 0, 29, 2), PolyFull(BoxOf(0, 0, 29, 2))>>

InitPool ==
  /\ \E job \in JobInputs \cup {LargeJob} :
       /\ boundary_box = job[1]
       /\ total_shapely_polygon = job[2]
  /\ max_size = 30
  /\ split_pc = "ready"
  /\ sub_rectangles = <<>>
  /\ orch_pc = "start" /\ max_workers = 0 /\ queue = <<>>
  /\ fut = <<>> /\ w_pc = <<>> /\ attempts = <<>> /\ sleeps = <<>>
  /\ last_error = <<>> /\ yielded = {} /\ results = <<>>
  /\ image_file = "unset" /\ status_code = 0
  /\ ImgIdle
  /\ StatsIdle

\* process_sub_polygon reaches the retry loop
SetupDoneWhenReachable(i) == NumTiles <= MaxFetchingTiles /\ SetupDone(i)

NextPool ==
  \/ SplitBoundaryBox
  \/ InsufficientData
  \/ CreatePool
  \/ Submit
  \/ \E i \in Futures : StartTask(i)
  \/ \E i \in Futures : SetupDoneWhenReachable(i)
  \/ \E i \in Futures : SetupRaises(i)
  \/ \E i \in Futures : AttemptSucceeds(i)
  \/ \E i \in Futures : AttemptNon200(i)
  \/ \E i \in Futures : AttemptException(i)
  \/ \E i \in Futures : Backoff(i)
  \/ \E i \in Futures : Collect(i)
  \/ Return
  \/ Respond

SpecPool == InitPool /\ [][NextPool]_vars

(***************************************************************************)
(* merge_images_properly on its own: called with the results of every tile *)
(* of the partition, in list order or reversed.                            *)
(***************************************************************************)
AllResults(tiles) == [i \in 1..Len(tiles) |-> TileResult(i, tiles[i])]

Reversed(seq) == [i \in 1..Len(seq) |-> seq[Len(seq) + 1 - i]]

\* boxes between 10 and 20 metres wide or high: one pixel of 10 metres
SliverBoxes ==
  { box(Zero, Zero, FromRat(1, 8192), Tenth(2)),
    box(Zero, Zero, Tenth(2), FromRat(1, 8192)) }

\* a boundary covering the west half of the box, over its full height
PolyWestHalf(bb0) ==
  With1(bb0, LAMBDA bb :
    <<box(bb.minx, bb.miny,
          FAdd(bb.minx, FDivInt(FSub(bb.maxx, bb.minx), 2)), bb.maxy)>>)

InitMerge ==
  /\ \E bb \in PartitionBoxes \cup SliverBoxes :
       \E poly \in PolysOf(bb) \cup {PolyWestHalf(bb)} :
         \E t \in {split_boundary_box(bb, poly, 30).tiles} :
           /\ boundary_box = bb
           /\ total_shapely_polygon = poly
           /\ sub_rectangles = t
           /\ results \in {AllResults(t), Reversed(AllResults(t))}
  /\ max_size = 30
  /\ split_pc = "returned"
  /\ orch_pc = "merge" /\ max_workers = 0 /\ queue = <<>>
  /\ fut = <<>> /\ w_pc = <<>> /\ attempts = <<>> /\ sleeps = <<>>
  /\ last_error = <<>> /\ yielded = {}
  /\ image_file = "unset" /\ status_code = 0
  /\ ImgIdle
  /\ StatsIdle

\* one call of merge_images_properly(results, output_dir, image_date)
MergeImages ==
  /\ orch_pc = "merge"
  /\ orch_pc' = "done"
  /\ \E r \in {merge_images_properly(results, boundary_box, total_shapely_polygon)} :
       /\ image_file' = r.file
       /\ canvas' = r.canvas
       /\ merged_img' = r.pastes
       /\ boundary_mask' = r.mask
  /\ UNCHANGED <<max_workers, queue, yielded, results, status_code>>
  /\ UNCHANGED workerVars
  /\ UNCHANGED partVars
  /\ UNCHANGED statVars

NextMerge == MergeImages

SpecMerge == InitMerge /\ [][NextMerge]_vars

(***************************************************************************)
(* Claims about the mosaic canvas.                                         *)
(***************************************************************************)
\* C6: the canvas merge_images_properly creates has neither width nor height
\* above 5000 pixels
C6_CanvasWithinCap ==
  canvas # <<>> => (canvas.w <= 5000 /\ canvas.h <= 5000)

\* no result of the list has a footprint of positive width and height
AllDegenerate ==
  \A k \in 1..Len(results) :
    ~Usable(Footprint(boundary_box, CanvasSize(boundary_box),
                      results[k].shapely_sub_rect))

\* C12: when no tile result has a pixel footprint of positive width and
\* height, merge_images_properly returns None and writes no image file
C12_DegenerateGivesNone ==
  (orch_pc = "done" /\ AllDegenerate) => image_file = "None"

(***************************************************************************)
(* Claims about the fetcher, the orchestrator and the handler.             *)
(***************************************************************************)
\* tiles whose fetch failed permanently: retries exhausted, or the worker raised
Failed == {i \in Futures : fut[i] \in {"none", "raised"}}

\* the tiles the results list holds
Collected_Tiles == {results[j].index + 1 : j \in 1..Len(results)}

\* C1: for N >= 2 tiles of which k fail permanently, the orchestrator ends
\* with exactly the N-k successful results, every tile's worker has run to its
\* end (none was cancelled), and the job returns the mosaic file when
\* 1 <= k < N and the no-mosaic result None when k = N
C1_PartialFailureTolerance ==
  (orch_pc = "done" /\ NumTiles >= 2) =>
    /\ Len(results) = NumTiles - Cardinality(Failed)
    /\ Collected_Tiles = Futures \ Failed
    /\ \A i \in Futures : w_pc[i] = "done" /\ (fut[i] # "raised" => attempts[i] >= 1)
    /\ (Cardinality(Failed) >= 1 /\ Cardinality(Failed) < NumTiles) => image_file = "file"
    /\ Cardinality(Failed) = NumTiles => image_file = "None"

C1_Witness ==
  /\ orch_pc = "done" /\ NumTiles = 3 /\ image_file = "file"
  /\ \E i, j, k \in Futures :
       fut[i] = "none" /\ fut[j] = "raised" /\ fut[k] = "result"

\* C2: a tile fetch whose every attempt fails makes exactly 3 attempts and
\* then yields None, without raising; no fetch makes more than 3 attempts
C2_RetryBound ==
  \A i \in Futures :
    /\ attempts[i] <= 3
    /\ (w_pc[i] = "done" /\ attempts[i] >= 1 /\ fut[i] # "result") =>
         (attempts[i] = 3 /\ fut[i] = "none")

C2_Witness ==
  \E i, j \in Futures :
    /\ fut[i] = "none" /\ attempts[i] = 3 /\ last_error[i] = "non200"
    /\ fut[j] = "none" /\ attempts[j] = 3 /\ last_error[j] = "exception"

\* C3: a fetch that always fails performs exactly two backoffs, after
\* attempts 1 and 2, and none after the third attempt
C3_TwoBackoffs ==
  \A i \in Futures : fut[i] = "none" => sleeps[i] = 2

\* C4: for every tile count N >= 0, whenever no tile succeeds the job ends
\* with the result None, which the handler answers with status 400, and no
\* exception reaches the job boundary
C4_NoTilesIsExplicitFailure ==
  (status_code # 0 /\ split_pc = "returned" /\ \A i \in Futures : fut[i] # "result") =>
    (image_file = "None" /\ status_code = 400)

\* C5 as stated: the tile images are pasted in ascending tile index,
\* whatever the order in which the fetches completed
C5_PastedInIndexOrder ==
  image_file = "file" =>
    \A j, k \in 1..Len(merged_img) : j < k => merged_img[j].img < merged_img[k].img

\* the pastes of merged_img put in ascending tile index
InIndexOrder(pastes) ==
  [k \in 1..Len(pastes) |->
     CHOOSE p \in {pastes[j] : j \in 1..Len(pastes)} :
       Cardinality({j \in 1..Len(pastes) : pastes[j].img < p.img}) = k - 1]

\* one pixel of every region the footprint edges cut the canvas into
EdgeXs(pastes) ==
  {0} \cup {pastes[k].at.x1 : k \in 1..Len(pastes)} \cup {pastes[k].at.x2 : k \in 1..Len(pastes)}

EdgeYs(pastes) ==
  {0} \cup {pastes[k].at.y1 : k \in 1..Len(pastes)} \cup {pastes[k].at.y2 : k \in 1..Len(pastes)}

\* two pixel footprints share a pixel
Overlap(a, b) ==
  /\ Max2(a.x1, b.x1) < Min2(a.x2, b.x2)
  /\ Max2(a.y1, b.y1) < Min2(a.y2, b.y2)

\* C5 as amended: the tiles are pasted in the order of the results list,
\* the order the fetches were collected in, but the footprints of two tiles
\* never overlap, so every pixel of the mosaic is the pixel pasting in
\* ascending tile index gives, for every completion order
C5_MosaicOrderIndependent ==
  image_file = "file" =>
    /\ \A j, k \in 1..Len(merged_img) :
         j # k => ~Overlap(merged_img[j].at, merged_img[k].at)
    /\ \A x \in EdgeXs(merged_img), y \in EdgeYs(merged_img) :
         MaskedPixelOf(merged_img, boundary_mask, x, y)
           = MaskedPixelOf(InIndexOrder(merged_img), boundary_mask, x, y)

C5_Witness ==
  /\ image_file = "file" /\ Len(merged_img) = 3
  /\ merged_img[1].img > merged_img[2].img
  /\ merged_img[2].at.x2 = merged_img[1].at.x1

\* the work items in the executor's queue are distinct
QueueDistinct ==
  \A j, k \in 1..Len(queue) : j # k => queue[j] # queue[k]

\* C14: with N >= 1 tiles at most min(10, N) fetches are in progress at any
\* moment; every tile is submitted to exactly one fetch (one future per
\* tile, queued once, and none left unsubmitted when collecting starts); and
\* the canvas exists only after all N fetches have finished
C14_BoundedPool ==
  NumTiles >= 1 =>
    /\ Cardinality(Running) <= Min2(10, NumTiles)
    /\ QueueDistinct
    /\ \A j \in 1..Len(queue) : queue[j] \in Futures /\ fut[queue[j]] = "pending"
    /\ orch_pc \in {"collect", "done"} =>
         (Futures = Tiles /\ \A i \in Futures : fut[i] # "new")
    /\ canvas # <<>> => (Futures = Tiles /\ Finished = Futures)

\* 10 of 11 fetches are in progress and the eleventh waits in the queue
C14_Witness ==
  /\ NumTiles = 11 /\ Cardinality(Running) = 10
  /\ queue = <<11>> /\ canvas = <<>>

(***************************************************************************)
(* Claims about the boundary mask.                                         *)
(***************************************************************************)
\* the pixel footprints of the parts of the boundary on the canvas
PolyFootprints ==
  [k \in 1..Len(total_shapely_polygon) |->
     Footprint(boundary_box, canvas, total_shapely_polygon[k])]

\* one pixel column of every region the footprint edges cut the canvas into
RepXs ==
  ({0, canvas.w - 1}
     \cup {PolyFootprints[k].x1 : k \in 1..Len(PolyFootprints)}
     \cup {PolyFootprints[k].x2 + 1 : k \in 1..Len(PolyFootprints)}
     \cup EdgeXs(merged_img)) \cap (0..(canvas.w - 1))

\* one pixel row of every such region
RepYs ==
  ({0, canvas.h - 1}
     \cup {PolyFootprints[k].y1 : k \in 1..Len(PolyFootprints)}
     \cup {PolyFootprints[k].y2 + 1 : k \in 1..Len(PolyFootprints)}
     \cup EdgeYs(merged_img)) \cap (0..(canvas.h - 1))

\* pixel (x, y) lies in no part's pixel footprint, edges included
OutsideFootprints(x, y) ==
  \A k \in 1..Len(PolyFootprints) :
    ~(/\ PolyFootprints[k].x1 <= x /\ x <= PolyFootprints[k].x2
      /\ PolyFootprints[k].y1 <= y /\ y <= PolyFootprints[k].y2)

\* a rectangular boundary equal to the box: the mask is opaque everywhere and
\* masking changes no pixel
OpaqueWhenFull ==
  total_shapely_polygon = <<boundary_box>> =>
    \A x \in RepXs, y \in RepYs :
      /\ MaskAt(boundary_mask, x, y)
      /\ MaskedPixelOf(merged_img, boundary_mask, x, y) = PixelOf(merged_img, x, y)

\* every part of the boundary lies in the box and none fills it
StrictlySmaller ==
  \A k \in 1..Len(total_shapely_polygon) :
    /\ FLe(boundary_box.minx, total_shapely_polygon[k].minx)
    /\ FLe(total_shapely_polygon[k].maxx, boundary_box.maxx)
    /\ FLe(boundary_box.miny, total_shapely_polygon[k].miny)
    /\ FLe(total_shapely_polygon[k].maxy, boundary_box.maxy)
    /\ total_shapely_polygon[k] # boundary_box

\* C13 as stated: a boundary equal to its bounding box gives a fully opaque
\* mask and masking changes no pixel; a boundary strictly smaller than the
\* box has at least one canvas pixel outside it forced to black
C13_SmallerBoundaryBlackens ==
  image_file = "file" =>
    /\ OpaqueWhenFull
    /\ StrictlySmaller =>
         \E x \in RepXs, y \in RepYs :
           /\ ~MaskAt(boundary_mask, x, y)
           /\ MaskedPixelOf(merged_img, boundary_mask, x, y) = 0

\* C13 as amended: a boundary equal to the box gives a fully opaque mask and
\* masking changes no pixel; for any boundary every canvas pixel outside the
\* pixel footprints of its parts is black, and a boundary strictly smaller
\* than the box blackens at least one pixel unless its pixel footprints
\* cover the whole canvas
C13_BlackOutsideFootprint ==
  image_file = "file" =>
    /\ OpaqueWhenFull
    /\ \A x \in RepXs, y \in RepYs :
         OutsideFootprints(x, y) =>
           MaskedPixelOf(merged_img, boundary_mask, x, y) = 0
    /\ (StrictlySmaller /\ \E x \in RepXs, y \in RepYs : OutsideFootprints(x, y)) =>
         \E x \in RepXs, y \in RepYs :
           /\ ~MaskAt(boundary_mask, x, y)
           /\ MaskedPixelOf(merged_img, boundary_mask, x, y) = 0

\* a pixel a tile was pasted on has been forced to black by the mask of a
\* boundary strictly smaller than the box
C13_Witness ==
  /\ image_file = "file" /\ StrictlySmaller
  /\ \E x \in RepXs, y \in RepYs :
       /\ PixelOf(merged_img, x, y) # 0
       /\ MaskedPixelOf(merged_img, boundary_mask, x, y) = 0

(***************************************************************************)
(* calculate_area_statistics.  Pixel counts are integers; total_area is    *)
(* an integer number of 1e-6 km2 and every value rounded to 5 decimals is  *)
(* an integer number of 1e-5 (km2 or percent).  The quotients are exact:   *)
(* the error of double arithmetic is far below 1e-5 and can change the     *)
(* rounded result only when the exact quotient lies on a decimal tie.      *)
(***************************************************************************)
CLASS_NAMES ==
  <<"water", "trees", "grass", "flooded_vegetation", "crops",
    "shrub_and_scrub", "built", "bare", "snow_and_ice", "cloud",
    "natural_forest">>

Names == {CLASS_NAMES[k] : k \in 1..Len(CLASS_NAMES)}

\* sum of the values of a function of naturals
SumOf(f) ==
  With1({x \in DOMAIN f : f[x] > 0}, LAMBDA pos :
    IF pos = {} THEN 0 ELSE BagCardinality([x \in pos |-> f[x]]))

\* the test of line 519: the class value has a name
Counted(class_idx) == class_idx < Len(CLASS_NAMES)

\* class_pixels after the loop of lines 517-521
class_pixels_of(h) ==
  With1({k \in DOMAIN h : Counted(k)}, LAMBDA keys :
    [name \in {CLASS_NAMES[k + 1] : k \in keys} |->
       h[CHOOSE k \in keys : CLASS_NAMES[k + 1] = name]])

\* total_pixels after the loop of lines 517-521
total_pixels_of(h) ==
  With1({k \in DOMAIN h : Counted(k)}, LAMBDA keys :
    IF keys = {} THEN 0 ELSE SumOf([k \in keys |-> h[k]]))

\* q + 1/2 units of 1e-5 is a double exactly when it is a multiple of 2^-6
ExactTie(q) == (2 * q + 1) % 3125 = 0

\* a rounding that drops the fraction
RoundQR_Truncating(q, r, d, up) == q

\* round to 5 decimals of q + r / d units of 1e-5, 0 <= r < d.  A tie that is
\* a double is rounded half to even; at a tie that is not a double the stored
\* double lies on either side of it, and up says which
RoundQR(q, r, d, up) ==
  IF 2 * r < d THEN q
  ELSE IF 2 * r > d THEN q + 1
  ELSE IF ExactTie(q) THEN (IF q % 2 = 0 THEN q ELSE q + 1)
  ELSE IF up THEN q + 1 ELSE q

\* round(n / d, 5) in units of 1e-5, for n >= 0 and d > 0 whose quotient is
\* a number of 1e-5
Round5(n, d, up) == RoundQR(n \div d, n % d, d, up)

\* one step of long division: the quotient so far times k
DivStep(st, k, y) ==
  With1(st.r * k, LAMBDA rk : [q |-> st.q * k + rk \div y, r |-> rk % y])

\* round((x / y) * 100, 5) in units of 1e-5 percent, x and y in the same unit
Percent(x, y, up) ==
  With1(DivStep(DivStep(DivStep(DivStep([q |-> x \div y, r |-> x % y],
                                        100, y), 100, y), 100, y), 10, y),
        LAMBDA st : RoundQR(st.q, st.r, y, up))

\* a guard that lets every denominator through
Positive_Unguarded(d) == TRUE

\* the guards "> 0" of lines 523, 532, 534 and 536 on a denominator
Positive(d) == d > 0

\* the comprehension of line 523 divides by a total_pixels of 0
ZeroDivisionInAreas(h) ==
  With2(class_pixels_of(h), total_pixels_of(h), LAMBDA class_pixels, total :
    DOMAIN class_pixels # {} /\ Positive(total) /\ total = 0)

\* a percentage of lines 532-537 divides by a total_forest_area or a
\* total_area of 0
ZeroDivisionInStats(areas, area) ==
  With1(areas["natural_forest"] + areas["trees"], LAMBDA total_forest_area :
    \/ Positive(total_forest_area) /\ total_forest_area = 0
    \/ \E n \in Names : areas[n] > 0 /\ Positive(area) /\ area = 0)

\* class_areas of lines 523-526; ups are the names rounded up at a tie
class_areas_of(h, area, ups) ==
  With2(class_pixels_of(h), total_pixels_of(h), LAMBDA class_pixels, total :
    [name \in Names |->
       IF name \in DOMAIN class_pixels
       THEN (IF Positive(total)
             THEN Round5(class_pixels[name] * area, total * 10, name \in ups)
             ELSE 0)
       ELSE 0])

\* the stats_data dict of lines 528-540, without the date; pup is the side
\* taken by a percentage at a tie that is not a double
stats_data_of(areas, area, pup) ==
  With3(areas["natural_forest"], areas["trees"],
        areas["natural_forest"] + areas["trees"],
        LAMBDA natural_forest_area, trees_area, total_forest_area :
    [total_area_km2 |-> Round5(area, 10, pup),
     forest_area_km2 |-> total_forest_area,
     natural_forest_km2 |-> natural_forest_area,
     natural_forest_percentage |->
       IF Positive(total_forest_area)
       THEN Percent(natural_forest_area, total_forest_area, pup) ELSE 0,
     other_trees_km2 |-> trees_area,
     other_trees_percentage |->
       IF Positive(total_forest_area)
       THEN Percent(trees_area, total_forest_area, pup) ELSE 0,
     land_cover_classes |->
       [name \in {n \in Names : areas[n] > 0} |->
          [area_km2 |-> areas[name],
           percentage |->
             IF Positive(area)
             THEN Percent(areas[name] * 10, area, pup) ELSE 0]]])

\* class values of the histograms: three named classes and one without a name
HistogramKeys == {0, 1, 10, 11}

PixelCounts == {0, 1, 3, 40, 60}

\* the histograms reduceRegion may return, the empty one included
Histograms == UNION {[keys -> PixelCounts] : keys \in SUBSET HistogramKeys}

\* total areas in 1e-6 km2: none, decimal ties, a binary tie, 10 km2
TotalAreas == {0, 5, 55, 15625, 1000003, 10000000}

InitStats ==
  /\ histogram \in Histograms
  /\ total_area \in TotalAreas
  /\ stats_pc = "ready"
  /\ total_pixels = 0 /\ class_areas = <<>> /\ stats_data = <<>>
  /\ boundary_box = BoxOf(0, 0, 2, 2)
  /\ total_shapely_polygon = PolyFull(BoxOf(0, 0, 2, 2))
  /\ max_size = 30
  /\ split_pc = "ready"
  /\ sub_rectangles = <<>>
  /\ FetchIdle
  /\ ImgIdle

\* one call of calculate_area_statistics(image, boundary, total_area, ...)
CalculateAreaStatistics ==
  /\ stats_pc = "ready"
  /\ total_pixels' = total_pixels_of(histogram)
  /\ IF ZeroDivisionInAreas(histogram)
     THEN /\ stats_pc' = "raised"
          /\ UNCHANGED <<class_areas, stats_data>>
     ELSE \E ups \in SUBSET DOMAIN class_pixels_of(histogram) :
            \E pup \in BOOLEAN :
              \E areas \in {class_areas_of(histogram, total_area, ups)} :
                /\ class_areas' = areas
                /\ IF ZeroDivisionInStats(areas, total_area)
                   THEN /\ stats_pc' = "raised"
                        /\ UNCHANGED stats_data
                   ELSE /\ stats_pc' = "returned"
                        /\ stats_data' = stats_data_of(areas, total_area, pup)
  /\ UNCHANGED <<histogram, total_area>>
  /\ UNCHANGED partVars
  /\ UNCHANGED fetchVars
  /\ UNCHANGED imgVars

NextStats == CalculateAreaStatistics

SpecStats == InitStats /\ [][NextStats]_vars

(***************************************************************************)
(* Claims about the statistics.                                            *)
(***************************************************************************)
\* pixel count of a named class in the histogram, 0 when it is absent
PixelsOf(name) ==
  With1(class_pixels_of(histogram), LAMBDA class_pixels :
    IF name \in DOMAIN class_pixels THEN class_pixels[name] ELSE 0)

\* C10: with a positive total of counted pixels every class area is
\* (class pixels / total counted pixels) x total area rounded to 5 decimals,
\* i.e. within half of 1e-5 of the exact share; the class areas sum to the
\* total area within half of 1e-5 per class present in the histogram; and
\* 60 and 40 pixels with 10 km2 give 6 km2 and 4 km2
C10_ProportionalAreas ==
  (stats_pc = "returned" /\ total_pixels > 0) =>
    /\ total_pixels = SumOf([name \in Names |-> PixelsOf(name)])
    /\ \A name \in Names :
         Abs(class_areas[name] * 10 * total_pixels - PixelsOf(name) * total_area)
           <= 5 * total_pixels
    /\ Abs(SumOf(class_areas) * 10 - total_area)
         <= 5 * Cardinality(DOMAIN class_pixels_of(histogram))
    /\ (/\ PixelsOf("water") = 60 /\ PixelsOf("trees") = 40
        /\ total_pixels = 100 /\ total_area = 10000000)
         => (/\ class_areas["water"] = 600000
             /\ class_areas["trees"] = 400000)

\* 60 water and 40 tree pixels, next to pixels of a class without a name,
\* have shared out 10 km2
C10_Witness ==
  /\ stats_pc = "returned"
  /\ 11 \in DOMAIN histogram /\ histogram[11] = 3
  /\ PixelsOf("water") = 60 /\ PixelsOf("trees") = 40
  /\ total_pixels = 100 /\ total_area = 10000000
  /\ class_areas["water"] = 600000 /\ class_areas["trees"] = 400000
  /\ class_areas["natural_forest"] = 0

\* every percentage of stats_data is 0
AllPercentagesZero ==
  /\ stats_data.natural_forest_percentage = 0
  /\ stats_data.other_trees_percentage = 0
  /\ \A name \in DOMAIN stats_data.land_cover_classes :
       stats_data.land_cover_classes[name].percentage = 0

\* C11: calculate_area_statistics never raises on a zero denominator; with
\* zero total pixels every class area and every percentage is 0; with a zero
\* total forest area the natural-forest and other-trees percentages are 0;
\* with a zero total area every per-class percentage is 0
C11_ZeroDenominators ==
  /\ stats_pc # "raised"
  /\ stats_pc = "returned" =>
       /\ total_pixels = 0 =>
            ((\A name \in Names : class_areas[name] = 0) /\ AllPercentagesZero)
       /\ stats_data.forest_area_km2 = 0 =>
            (/\ stats_data.natural_forest_percentage = 0
             /\ stats_data.other_trees_percentage = 0)
       /\ total_area = 0 =>
            \A name \in DOMAIN stats_data.land_cover_classes :
              stats_data.land_cover_classes[name].percentage = 0

\* a histogram with classes but only zero counts has been processed
C11_Witness ==
  /\ stats_pc = "returned"
  /\ DOMAIN class_pixels_of(histogram) # {}
  /\ total_pixels = 0 /\ total_area > 0
  /\ \A name \in Names : class_areas[name] = 0
  /\ AllPercentagesZero

====
